---- MODULE Spec2Model ----
(***************************************************************************)
(* Verification model of the polling-and-reconciliation core of the Clore  *)
(* bot: the order ledger (database/crud.py, database/models.py), the       *)
(* order-reconciliation cycle (services/monitoring/server_monitor.py) and  *)
(* the marketplace match filter (services/monitoring/hunt_monitor.py,      *)
(* clore_api/client.py).                                                   *)
(***************************************************************************)
EXTENDS Integers, Sequences, FiniteSets, TLC

(***************************************************************************)
(* Bounds of the model.                                                    *)
(***************************************************************************)
\* upstream order ids are drawn from 1..MaxOrderId
MaxOrderId == 2
\* an upstream active-order list holds at most MaxApiOrders entries
MaxApiOrders == 2
\* expiry-warning alerts recorded before the model stops recording more
MaxExpiryAlerts == 1
\* number of direct status updates (mark_expired / mark_cancelled) explored
MaxMarks == 2

\* the single owner whose cycle is modelled (users.id)
Owner == 1
\* the 'spend' values an upstream order payload may carry
Spends == {0, 1}
\* update_order_status(total_spent=None)
NoSpend == -1
\* a NULL cancelled_at
NoTime == 0

OrderIds == 1..MaxOrderId
Terminal(status) == status \in {"expired", "cancelled"}

\* an upstream order payload: the fields of it the ledger reads
ApiOrder == [id : OrderIds, spend : Spends]

RECURSIVE SeqsUpTo(_, _)
SeqsUpTo(S, n) ==
  IF n = 0 THEN {<<>>}
  ELSE LET shorter == SeqsUpTo(S, n - 1)
       IN  shorter \cup {Append(s, x) : s \in {t \in shorter : Len(t) = n - 1}, x \in S}

\* every list the upstream active-order endpoint may answer with
ApiOrderLists == SeqsUpTo(ApiOrder, MaxApiOrders)


(***************************************************************************)
(* Marketplace listings and hunt criteria.                                 *)
(***************************************************************************)
\* a marketplace answer holds at most MaxServers listings
MaxServers == 2

\* settings.clore_to_usd = 0.02: one CLORE is 2 cents (money is counted in cents)
CloreToUsdCents == 2
\* a price that the payload does not carry (None)
NoPrice == -1

\* GPU descriptors (specs.gpu), as character sequences
Gpu4x4090 == <<"4", "x", " ", "R", "T", "X", " ", "4", "0", "9", "0">>
GpuPlain3090 == <<"R", "T", "X", " ", "3", "0", "9", "0">>
Gpu0x3090 == <<"0", "x", " ", "R", "T", "X", " ", "3", "0", "9", "0">>
GpuMaxQ == <<"M", "a", "x", " ", "Q">>
GpuStrings == {Gpu4x4090, GpuPlain3090, Gpu0x3090, GpuMaxQ}

\* the price part of a listing: price.usd.on_demand_clore (cents) and
\* price.on_demand['CLORE-Blockchain'] (CLORE), each possibly missing
Prices == {[usd |-> NoPrice, clore |-> NoPrice],
           [usd |-> 4000, clore |-> NoPrice],
           [usd |-> NoPrice, clore |-> 2000]}

\* a listing but for its id: rented flag, specs.gpu, prices, specs.ram (GB),
\* specs.net.cc, rating.avg
Listings ==
  {[rented |-> r, gpu |-> g, usd |-> p.usd, clore |-> p.clore,
    ram |-> 64, cc |-> "US", rating |-> 4] :
     r \in BOOLEAN, g \in GpuStrings, p \in Prices}

\* the listings of one marketplace answer carry distinct ids: 501, 502, ...
Marketplace(list) == [k \in DOMAIN list |-> [id |-> 500 + k] @@ list[k]]

\* criteria: a dict in which any key may be missing
NoCriteria == [k \in {} |-> 0]
CriteriaSet ==
  {price @@ models @@ mincount :
     price \in {NoCriteria} \cup {[max_price_per_gpu |-> c] : c \in {900, 1000, 1100}},
     models \in {NoCriteria, [gpu_models |-> <<>>],
                 [gpu_models |-> << <<"r", "t", "x">> >>]},
     mincount \in {NoCriteria, [min_gpu_count |-> 2]}}

VARIABLES
  orders,      \* the orders table, by clore_order_id: the rows carrying that id, oldest first
  alerts,      \* the alerts table: a sequence of rows
  pc,          \* position of the reconciliation cycle
  api_orders,  \* the list fetched from upstream in the cycle (last successful fetch)
  db_orders,   \* clore_order_id of the rows read as active at the start of the cycle
  idx,         \* loop index of the cycle's current loop
  error,       \* outcome of the last cycle step: "none" or the exception caught
  marks,       \* direct status updates made (also the clock read for cancelled_at)
  orders0,     \* the orders table as it was when the cycle read it
  alerts0,     \* number of alert rows when the cycle read the ledger
  servers,     \* the marketplace answer handed to the match filter
  criteria,    \* the hunt task's filters
  matching,    \* what the match filter returned
  hunt_pc,     \* position of the hunt cycle: "idle", "ready", "filtered" or "raised", "processing"
  task,        \* the hunt task: its settings and its counters
  found_servers, \* HuntMonitor.found_servers: listing id -> when it was last alerted
  clock,       \* the wall clock, in ticks
  queue,       \* the matches still to be handled in the cycle, cheapest first
  attempts,    \* the listings handed to _auto_rent_server in the cycle, in order
  seen,        \* per listing id: when the dedup cache was first consulted for it, and how often
  wall,        \* the wall clock the clients read, in ticks
  last_request_time, \* per client instance: _last_request_time
  callers,     \* per caller of _make_request: where it stands, with which instance
  last_dispatch, \* when the latest request was handed to the HTTP client, by any instance
  waiting,     \* the callers asleep in _make_request, in the order in which they called
  last_result, \* the call of _make_request that ended last: the answer and what the caller got
  watchers,    \* per watcher loop: the running flag, its position, the subjects handled in the cycle
  history,     \* the balance_history rows of the owner, oldest first
  utc,         \* the clock read by the balance cycle, in ticks of ten minutes
  user,        \* the owner's row of users: the alert thresholds
  delivery,    \* per alert id that mark_alert_sent has written: is_sent and error
  channel,     \* the alert ids whose message the chat has accepted
  sink_pc,     \* position of the alert service's cycle: "idle" or "sending"
  user_alerts, \* the unsent alerts the cycle has read and not handled yet
  order_request \* the last create_order / cancel_order call: its data and what came of it

ledgerVars == <<orders, alerts, pc, api_orders, db_orders, idx, error, marks,
                orders0, alerts0>>

huntTaskVars == <<task, found_servers, clock, queue, attempts, seen>>

huntVars == <<servers, criteria, matching, hunt_pc, huntTaskVars>>

rateVars == <<wall, last_request_time, callers, last_dispatch, waiting, last_result>>

watchVars == <<watchers>>

balanceVars == <<history, utc, user>>

sinkVars == <<delivery, channel, sink_pc, user_alerts>>

orderVars == <<order_request>>

vars == <<ledgerVars, huntVars, rateVars, watchVars, balanceVars, sinkVars, orderVars>>

(***************************************************************************)
(* The order ledger (database/crud.py).                                    *)
(***************************************************************************)
Seq2Set(s) == {s[k] : k \in DOMAIN s}

\* the unique index missing: no insert is refused
UniqueViolation_Off(rows, cid) == FALSE

\* Order.clore_order_id is declared unique: inserting a second row with a
\* stored id makes the commit raise IntegrityError
UniqueViolation(rows, cid) == Len(rows[cid]) > 0

\* save_order: a new row, status 'active'
save_order(rows, user_id, order_data) ==
  [rows EXCEPT ![order_data.id] =
     Append(@, [user_id |-> user_id,
                clore_order_id |-> order_data.id,
                status |-> "active",
                total_spent |-> order_data.spend,
                cancelled_at |-> NoTime])]

\* the update leaving the status column as it is
update_order_status_KeepStatus(rows, cid, status, total_spent, now) ==
  [rows EXCEPT ![cid] =
     [k \in DOMAIN @ |->
        [@[k] EXCEPT !.total_spent = IF total_spent # NoSpend THEN total_spent ELSE @]]]

\* update_order_status: UPDATE orders SET ... WHERE clore_order_id = :id
update_order_status(rows, cid, status, total_spent, now) ==
  [rows EXCEPT ![cid] =
     [k \in DOMAIN @ |->
        [@[k] EXCEPT !.status = status,
                     !.total_spent = IF total_spent # NoSpend THEN total_spent ELSE @,
                     !.cancelled_at = IF status = "cancelled" THEN now ELSE @]]]

\* the rows of ids 1..n with the user's active ones kept, as their ids, the latest id first
RECURSIVE ActiveIdsDesc(_, _, _)
ActiveIdsDesc(rows, user_id, n) ==
  IF n = 0 THEN <<>>
  ELSE LET active == SelectSeq(rows[n],
                               LAMBDA r : r.user_id = user_id /\ r.status = "active")
       IN  [k \in 1..Len(active) |-> n] \o ActiveIdsDesc(rows, user_id, n - 1)

\* the status filter missing: every row of the owner is read as active
get_active_orders_AnyStatus(rows, user_id) ==
  ActiveIdsDesc([c \in DOMAIN rows |-> [k \in DOMAIN rows[c] |->
                                          [rows[c][k] EXCEPT !.status = "active"]]],
                user_id, MaxOrderId)

\* get_active_orders: the owner's rows with status 'active', newest first
get_active_orders(rows, user_id) == ActiveIdsDesc(rows, user_id, MaxOrderId)

\* create_alert writing over the newest row
create_alert_Overwrite(rows, user_id, alert_type, order_id) ==
  LET row == [user_id |-> user_id, alert_type |-> alert_type, order |-> order_id]
  IN  IF rows = <<>> THEN <<row>> ELSE [rows EXCEPT ![Len(rows)] = row]

\* create_alert: a new alert row
create_alert(rows, user_id, alert_type, order_id) ==
  Append(rows, [user_id |-> user_id, alert_type |-> alert_type, order |-> order_id])

(***************************************************************************)
(* The reconciliation cycle (ServerMonitor._check_active_orders).          *)
(***************************************************************************)
ApiIds == {api_orders[k].id : k \in DOMAIN api_orders}
DbIds == Seq2Set(db_orders)
NoOrders == [c \in OrderIds |-> <<>>]

NoError == [kind |-> "none", order |-> 0]

\* callers of _make_request that may be under way at once
MaxCallers == 2
\* the wall clock of the clients stops at MaxWall ticks
MaxWall == 3

Callers == 1..MaxCallers
\* the client instances alive at once (one per 'async with CloreAPIClient(...)',
\* one per agent)
Clients == {1, 2}
\* self._last_request_time = None
NoStamp == -1


\* a response body with no "code" key; data.get("code", -1) reads it as -1
NoCode == -1
\* the largest embedded code an answer carries here: one more than ERROR_CODES knows
MaxCode == 7
\* a response body with no "error" key
NoField == ""

\* CloreAPIClient.ERROR_CODES
ERROR_CODES ==
  [c \in 0..6 |->
     CASE c = 0 -> "NORMAL"
       [] c = 1 -> "DATABASE ERROR"
       [] c = 2 -> "INVALID INPUT DATA"
       [] c = 3 -> "INVALID API TOKEN"
       [] c = 4 -> "INVALID ENDPOINT"
       [] c = 5 -> "EXCEEDED 1 request/second limit"
       [] c = 6 -> "Error specified in error field"]

\* what the upstream may do with a request: the connection fails or times
\* out, the HTTP status is an error, the body is not JSON, or the body is a
\* JSON object with or without a code and an error text
Answers ==
  {[kind |-> k, code |-> NoCode, error |-> NoField] :
     k \in {"transport", "http_status", "undecodable"}}
  \cup {[kind |-> "json", code |-> c, error |-> NoField] : c \in {NoCode} \cup 0..MaxCode}
  \cup {[kind |-> "json", code |-> 6, error |-> "not enough balance"]}

\* no response object (CloreAPIError.response = None), no call ended yet
NoAnswer == [kind |-> "none", code |-> NoCode, error |-> NoField]

\* a text that names no embedded code
Text(t) == [code |-> NoCode, text |-> t]

\* CloreAPIError(code, message, response)
CloreAPIError(code, message, response) ==
  [kind |-> "raised", code |-> code, message |-> message, response |-> response]

\* str(e) of a CloreAPIError: "Clore API Error [code]: message"
Str(e) == [code |-> e.code, text |-> e.message.text]

\* the body of the try block of _make_request: the answer is returned, or
\* an exception leaves the block (for the exceptions of httpx and orjson
\* the record holds their text alone)
TryRequest(ans) ==
  CASE ans.kind = "transport" ->
         [kind |-> "ConnectError", code |-> NoCode, message |-> Text("ConnectError"),
          response |-> NoAnswer]
    [] ans.kind = "http_status" ->
         [kind |-> "HTTPStatusError", code |-> NoCode, message |-> Text("HTTP 500"),
          response |-> NoAnswer]
    [] ans.kind = "undecodable" ->
         [kind |-> "JSONDecodeError", code |-> NoCode, message |-> Text("JSONDecodeError"),
          response |-> NoAnswer]
    [] OTHER ->
         LET code == ans.code
             error_msg == IF code = 6 /\ ans.error # NoField THEN ans.error
                          ELSE IF code \in DOMAIN ERROR_CODES THEN ERROR_CODES[code]
                          ELSE "Unknown error"
         IN  IF code # 0
             THEN CloreAPIError(code, Text(error_msg), ans)
             ELSE [kind |-> "returned", code |-> code, message |-> Text(""),
                   response |-> ans]

\* the except clauses of _make_request: HTTPStatusError becomes
\* CloreAPIError(-1, "HTTP ..."), every other exception, the CloreAPIError
\* of the code check included, becomes CloreAPIError(-1, str(e)); neither
\* carries a response
Except(inner) ==
  IF inner.kind = "HTTPStatusError" THEN CloreAPIError(-1, inner.message, NoAnswer)
  ELSE IF inner.kind = "raised" THEN CloreAPIError(-1, Str(inner), NoAnswer)
  ELSE CloreAPIError(-1, inner.message, NoAnswer)

\* the code check missing: every decoded body is returned
make_request_AnyCode(ans) ==
  IF ans.kind = "json"
  THEN [kind |-> "returned", code |-> ans.code, message |-> Text(""), response |-> ans]
  ELSE Except(TryRequest(ans))

\* _make_request once the request was sent: what the try block returns is
\* returned, what it raises goes through the except clauses
make_request(ans) ==
  LET inner == TryRequest(ans)
  IN  IF inner.kind = "returned" THEN inner ELSE Except(inner)

\* no except clause of _make_request sends the request again (the mutant
\* sends again after every failure)
Retries_OnFailure(ans) == make_request(ans).kind = "raised"

\* the except clauses of _make_request raise: none of them sends again
Retries(ans) == FALSE

\* no call of _make_request has ended
NoResult ==
  [answer |-> NoAnswer, requests |-> 0,
   outcome |-> [kind |-> "none", code |-> NoCode, message |-> Text(""),
                response |-> NoAnswer]]

\* no client has sent a request and no call is under way
InitClients ==
  /\ wall = 0
  /\ last_request_time = [c \in Clients |-> NoStamp]
  /\ callers = [p \in Callers |-> [pc |-> "idle", client |-> 1, wake |-> 0, sent |-> 0]]
  /\ last_dispatch = NoStamp
  /\ waiting = <<>>
  /\ last_result = NoResult

\* the watcher loops: BalanceMonitor, ServerMonitor, HuntMonitor
Watchers == {"balance", "server", "hunt"}
\* a cycle reads at most MaxSubjects subjects (active users, active hunt tasks)
MaxSubjects == 2
Subjects == 1..MaxSubjects

\* a watcher as its constructor leaves it (self.running = False), start()
\* not called
NewWatcher == [running |-> FALSE, pc |-> "stopped", idx |-> 1, handled |-> {}, failed |-> {}]

InitWatchers == watchers = [w \in Watchers |-> NewWatcher]

\* users.alert_balance_threshold is NULL
NoThreshold == 0
\* the column defaults of users: no balance threshold, expiry warning 5 hours ahead
DefaultUser == [alert_balance_threshold |-> NoThreshold, alert_rental_expiry_hours |-> 5]

\* no balance was recorded yet
InitBalance ==
  /\ history = <<>>
  /\ utc = 0
  /\ user = DefaultUser

\* Alert.is_sent defaults to False and error to NULL: no row was written by
\* mark_alert_sent, nothing was sent
NoDelivery == [a \in {} |-> 0]
InitSink ==
  /\ delivery = NoDelivery
  /\ channel = {}
  /\ sink_pc = "idle"
  /\ user_alerts = <<>>

\* no order call was made yet
NoRequest == [op |-> "none"]
InitOrderRequest == order_request = NoRequest

InitLedger ==
  /\ orders = NoOrders
  /\ alerts = <<>>
  /\ pc = "idle"
  /\ api_orders = <<>>
  /\ db_orders = <<>>
  /\ idx = 1
  /\ error = NoError
  /\ marks = 0
  /\ orders0 = NoOrders
  /\ alerts0 = 0

\* a dict with no key
NoEntries == [k \in {} |-> 0]

\* a hunt task as create_hunt_task and the column defaults make it
NewHuntTask(auto_rent, max_servers) ==
  [is_active |-> TRUE, auto_rent |-> auto_rent, max_servers |-> max_servers,
   servers_found |-> 0, servers_rented |-> 0]

\* HuntMonitor.__init__, and no match handled yet
InitHuntTask ==
  /\ found_servers = NoEntries
  /\ clock = 0
  /\ queue = <<>>
  /\ attempts = <<>>
  /\ seen = NoEntries

\* no marketplace answer is being filtered
InitHuntIdle ==
  /\ servers = <<>>
  /\ criteria = NoCriteria
  /\ matching = <<>>
  /\ hunt_pc = "ready"
  /\ task = NewHuntTask(FALSE, 1)
  /\ InitHuntTask

Init ==
  /\ InitLedger
  /\ InitHuntIdle
  /\ InitClients
  /\ InitWatchers
  /\ InitBalance
  /\ InitSink
  /\ InitOrderRequest

\* the cycle going on with an empty list after a failed fetch
AfterFetchError_Empty == "fetched"

\* get_my_orders is called inside the try block: what it raises leaves the
\* block, and the cycle is over
AfterFetchError == "idle"

\* client.get_my_orders raised: the except clause logs, nothing was touched
FetchFails ==
  /\ pc = "idle"
  /\ error' = [kind |-> "UpstreamError", order |-> 0]
  /\ pc' = AfterFetchError
  /\ UNCHANGED <<orders, alerts, api_orders, db_orders, idx, marks, orders0, alerts0>>
  /\ UNCHANGED <<huntVars, rateVars, watchVars, balanceVars, sinkVars, orderVars>>

\* client.get_my_orders answered with a list
Fetch ==
  /\ pc = "idle"
  /\ \E list \in ApiOrderLists : api_orders' = list
  /\ error' = NoError
  /\ pc' = "fetched"
  /\ UNCHANGED <<orders, alerts, db_orders, idx, marks, orders0, alerts0>>
  /\ UNCHANGED <<huntVars, rateVars, watchVars, balanceVars, sinkVars, orderVars>>

\* db_orders = await get_active_orders(db, user.id)
ReadActive ==
  /\ pc = "fetched"
  /\ db_orders' = get_active_orders(orders, Owner)
  /\ orders0' = orders
  /\ alerts0' = Len(alerts)
  /\ idx' = 1
  /\ pc' = "new"
  /\ UNCHANGED <<orders, alerts, api_orders, error, marks>>
  /\ UNCHANGED <<huntVars, rateVars, watchVars, balanceVars, sinkVars, orderVars>>

\* the function returns (or its except clause has logged): its locals are gone
Return ==
  /\ pc' = "idle"
  /\ idx' = 1
  /\ api_orders' = <<>>
  /\ db_orders' = <<>>
  /\ orders0' = NoOrders
  /\ alerts0' = 0

ExpiryAlerts(rows) == {k \in DOMAIN rows : rows[k].alert_type = "order_expiring"}

\* _check_order_expiry: the alert is raised when 0 < hours_left <= threshold,
\* which depends on the wall clock at the time of the check
check_order_expiry(rows, user_id, order_data, expiring) ==
  IF expiring THEN create_alert(rows, user_id, "order_expiring", order_data.id) ELSE rows

\* a payload without times: the order is found expiring or not, and the
\* model stops recording expiry alerts after MaxExpiryAlerts of them
AnyExpiry(order_data) ==
  {expiring \in BOOLEAN :
     expiring => Cardinality(ExpiryAlerts(alerts)) < MaxExpiryAlerts}

\* datetime.now() of the cycles, in hours
ExpiryNow == 10

\* hours_left = (fromtimestamp(ct + mrl) - now) / 3600
HoursLeft(order_data) == order_data.ct + order_data.mrl - ExpiryNow

\* "if not mrl or not created_at: return" and
\* "if 0 < hours_left <= user.alert_rental_expiry_hours"
IsExpiring(order_data) ==
  /\ order_data.mrl # 0
  /\ order_data.ct # 0
  /\ 0 < HoursLeft(order_data)
  /\ HoursLeft(order_data) <= user.alert_rental_expiry_hours

\* the outcome of the check for a payload with times
TimedExpiry(order_data) == {IsExpiring(order_data)}

\* the outcomes of "0 < hours_left <= threshold" for a payload
Expiry(order_data) ==
  IF "ct" \in DOMAIN order_data THEN TimedExpiry(order_data) ELSE AnyExpiry(order_data)

\* one iteration of "for api_order in api_orders"; the loop's end leads to the next loop
CheckNewOrder ==
  /\ pc = "new"
  /\ IF idx > Len(api_orders)
     THEN /\ pc' = "completed"
          /\ idx' = 1
          /\ UNCHANGED <<orders, alerts, error, api_orders, db_orders, orders0, alerts0>>
     ELSE LET api_order == api_orders[idx]
              order_id == api_order.id
          IN  IF order_id \notin DbIds /\ UniqueViolation(orders, order_id)
              THEN \* save_order raised IntegrityError: the cycle is abandoned
                   /\ error' = [kind |-> "IntegrityError", order |-> order_id]
                   /\ Return
                   /\ UNCHANGED <<orders, alerts>>
              ELSE /\ orders' = IF order_id \notin DbIds
                                THEN save_order(orders, Owner, api_order)
                                ELSE update_order_status(orders, order_id, "active",
                                                         api_order.spend, marks)
                   /\ \E expiring \in Expiry(api_order) :
                        alerts' = check_order_expiry(alerts, Owner, api_order, expiring)
                   /\ idx' = idx + 1
                   /\ UNCHANGED <<pc, error, api_orders, db_orders, orders0, alerts0>>
  /\ UNCHANGED <<marks, huntVars, rateVars, watchVars, balanceVars, sinkVars, orderVars>>

\* one iteration of "for db_order in db_orders"; the loop's end is the function's
CheckCompleted ==
  /\ pc = "completed"
  /\ IF idx > Len(db_orders)
     THEN /\ Return
          /\ UNCHANGED <<orders, alerts, error>>
     ELSE /\ LET cid == db_orders[idx]
             IN  IF cid \notin ApiIds
                 THEN /\ orders' = update_order_status(orders, cid, "expired", NoSpend, marks)
                      /\ alerts' = create_alert(alerts, Owner, "order_expired", cid)
                 ELSE UNCHANGED <<orders, alerts>>
          /\ idx' = idx + 1
          /\ UNCHANGED <<pc, error, api_orders, db_orders, orders0, alerts0>>
  /\ UNCHANGED <<marks, huntVars, rateVars, watchVars, balanceVars, sinkVars, orderVars>>

\* a step of the reconciliation cycle
Reconcile == FetchFails \/ Fetch \/ ReadActive \/ CheckNewOrder \/ CheckCompleted

\* mark_expired / mark_cancelled: update_order_status called on the ledger by
\* another coroutine of the event loop, at any await point of the cycle
MarkStatus ==
  /\ marks < MaxMarks
  /\ marks' = marks + 1
  /\ \E cid \in OrderIds, status \in {"expired", "cancelled"} :
       orders' = update_order_status(orders, cid, status, NoSpend, marks')
  /\ UNCHANGED <<alerts, pc, api_orders, db_orders, idx, error, orders0, alerts0>>
  /\ UNCHANGED <<huntVars, rateVars, watchVars, balanceVars, sinkVars, orderVars>>

Next == Reconcile

\* the reconciliation loop alone: the ledger as the running program writes it
Spec == Init /\ [][Next]_vars

NextLedger == Reconcile \/ MarkStatus

\* the reconciliation loop together with direct status updates of the ledger
SpecLedger == Init /\ [][NextLedger]_vars


(***************************************************************************)
(* Properties of the order ledger and of the reconciliation cycle.         *)
(***************************************************************************)
\* ids that carry a row of the owner with status 'active'
ActiveIds(rows) ==
  {c \in OrderIds : \E k \in DOMAIN rows[c] :
                      rows[c][k].user_id = Owner /\ rows[c][k].status = "active"}
\* ids whose rows are all terminal (and there is one)
AllTerminal(rows, c) ==
  Len(rows[c]) > 0 /\ \A k \in DOMAIN rows[c] : Terminal(rows[c][k].status)
\* ids marked cancelled in the ledger the cycle read
LocallyCancelled ==
  {c \in OrderIds : \E k \in DOMAIN orders0[c] : orders0[c][k].status = "cancelled"}
\* the step that ends a cycle whose upstream fetch succeeded
CycleEnds == pc \in {"new", "completed"} /\ pc' = "idle"

\* C1: after each cycle the owner's active ledger ids are exactly the ids of
\* the upstream list fetched in the cycle, minus the ids locally cancelled before
C1_ActiveSetEqualsSnapshot ==
  [][CycleEnds => ActiveIds(orders') = ApiIds \ LocallyCancelled]_vars

\* C2: a row that is 'expired' or 'cancelled' keeps that very status in
\* every later state: never 'active' again, never the other terminal status
C2_StatusMonotone ==
  [][\A c \in OrderIds : \A k \in DOMAIN orders[c] :
       Terminal(orders[c][k].status) =>
         k \in DOMAIN orders'[c] /\ orders'[c][k].status = orders[c][k].status]_vars

\* C3: no two rows of the orders table carry the same clore_order_id
C3_UniqueUpstreamId ==
  \A c \in OrderIds :
    /\ Len(orders[c]) <= 1
    /\ \A k \in DOMAIN orders[c] : orders[c][k].clore_order_id = c

\* C3 witness: a list that repeats an id, or holds a stored one, was reconciled
\* and the insert of the second row was refused
C3_Witness == error.kind = "IntegrityError" /\ Len(orders[error.order]) = 1

\* C4: a cycle step leaves the rows of an id that is terminal in the ledger
\* and present in the upstream list as they are: same status, no second row
C4_TerminalNeverResurrected ==
  [][\A c \in ApiIds : AllTerminal(orders, c) => orders'[c] = orders[c]]_vars

\* C4 witness: the upstream list held the id of a terminal row and the cycle
\* tried to store it
C4_Witness ==
  /\ error.kind = "IntegrityError"
  /\ AllTerminal(orders, error.order)
  /\ Len(orders[error.order]) = 1

\* C5: at the end of a cycle whose fetch succeeded, every id read as active
\* and absent from the upstream list is 'expired' and an 'order_expired'
\* alert was created for it in the cycle
C5_AbsentOrdersExpired ==
  [][CycleEnds =>
       \A c \in DbIds \ ApiIds :
         /\ \A k \in DOMAIN orders'[c] : orders'[c][k].status = "expired"
         /\ \E a \in (alerts0 + 1)..Len(alerts') :
              alerts'[a] = [user_id |-> Owner, alert_type |-> "order_expired", order |-> c]]_vars

\* C6: at the end of a cycle, a terminal row absent from the upstream list
\* is untouched, an active row still upstream is active, and every upstream
\* id that had no row has one active row
C6_CycleFrame ==
  [][CycleEnds =>
       /\ \A c \in OrderIds \ ApiIds : AllTerminal(orders0, c) => orders'[c] = orders0[c]
       /\ \A c \in DbIds \cap ApiIds : c \in ActiveIds(orders')
       /\ \A c \in ApiIds : Len(orders0[c]) = 0 =>
              Len(orders'[c]) = 1 /\ orders'[c][1].status = "active"]_vars

\* C7: handling a payload equal to one already handled in the cycle changes
\* no order row and raises no error
C7_UpsertIdempotent ==
  [][(/\ pc = "new"
      /\ idx <= Len(api_orders)
      /\ \E j \in 1..(idx - 1) : api_orders[j] = api_orders[idx])
       => (orders' = orders /\ error'.kind = "none")]_vars

\* C8: marking an order expired or cancelled (by a direct status update or by
\* the cycle's second loop) leaves an order that is already terminal as it
\* is: same status, same cancelled_at
C8_MarkTerminalIsNoOp ==
  [][(MarkStatus \/ CheckCompleted) =>
       \A c \in OrderIds : AllTerminal(orders, c) => orders'[c] = orders[c]]_vars

(***************************************************************************)
(* Text helpers: Python's str operations on character sequences.           *)
(***************************************************************************)
Lowers == <<"a", "b", "c", "d", "e", "f", "g", "h", "i", "j", "k", "l", "m",
            "n", "o", "p", "q", "r", "s", "t", "u", "v", "w", "x", "y", "z">>
Uppers == <<"A", "B", "C", "D", "E", "F", "G", "H", "I", "J", "K", "L", "M",
            "N", "O", "P", "Q", "R", "S", "T", "U", "V", "W", "X", "Y", "Z">>
Digits == <<"0", "1", "2", "3", "4", "5", "6", "7", "8", "9">>

\* str.upper()
Upper(str) ==
  [k \in DOMAIN str |->
     IF \E n \in DOMAIN Lowers : Lowers[n] = str[k]
     THEN Uppers[CHOOSE n \in DOMAIN Lowers : Lowers[n] = str[k]]
     ELSE str[k]]

\* str.find(sep) + 1: where sep first occurs in str, 0 when it does not
Find(str, sep) ==
  LET hits == {k \in 1..(Len(str) - Len(sep) + 1) : SubSeq(str, k, k + Len(sep) - 1) = sep}
  IN  IF hits = {} THEN 0 ELSE CHOOSE k \in hits : \A h \in hits : k <= h

\* sep in str
Contains(str, sep) == Find(str, sep) > 0

\* int(str) raises ValueError unless str is a run of decimal digits
IsInt(str) ==
  Len(str) > 0 /\ \A k \in DOMAIN str : \E d \in DOMAIN Digits : Digits[d] = str[k]

RECURSIVE IntOf(_)
IntOf(str) ==
  IF Len(str) = 0 THEN 0
  ELSE 10 * IntOf(SubSeq(str, 1, Len(str) - 1))
       + (CHOOSE d \in DOMAIN Digits : Digits[d] = str[Len(str)]) - 1

(***************************************************************************)
(* CloreAPIClient helpers (clore_api/client.py).                           *)
(***************************************************************************)
\* extract_server_price: the USD price if present, else the CLORE price
\* converted, else None
extract_server_price(server_data) ==
  IF server_data.usd # NoPrice THEN server_data.usd
  ELSE IF server_data.clore # NoPrice THEN server_data.clore * CloreToUsdCents
  ELSE NoPrice

\* extract_gpu_info: the count in front of 'x ', 1 without one; int() may raise
extract_gpu_info(gpu_string) ==
  LET at == Find(gpu_string, <<"x", " ">>)
      head == SubSeq(gpu_string, 1, at - 1)
  IN  IF at = 0 THEN [raised |-> FALSE, count |-> 1]
      ELSE IF IsInt(head) THEN [raised |-> FALSE, count |-> IntOf(head)]
      ELSE [raised |-> TRUE, count |-> 0]

(***************************************************************************)
(* The match filter (HuntMonitor._filter_servers_by_criteria).             *)
(* Each check answers "pass", "reject" (return False) or "raise".          *)
(***************************************************************************)
Has(crit, key) == key \in DOMAIN crit

\* GPU model allow-list: case-insensitive substring of the descriptor
GpuModelCheck(server, crit) ==
  IF Has(crit, "gpu_models") /\ Len(crit.gpu_models) > 0
  THEN IF \E m \in DOMAIN crit.gpu_models :
            Contains(Upper(server.gpu), Upper(crit.gpu_models[m]))
       THEN "pass" ELSE "reject"
  ELSE "pass"

\* the unknown price let through
PricePerGpuCheck_UnknownPasses(server, crit) ==
  IF Has(crit, "max_price_per_gpu")
  THEN LET price == extract_server_price(server)
           info == extract_gpu_info(server.gpu)
       IN  IF info.raised THEN "raise"
           ELSE IF price # NoPrice /\ info.count > 0
                   /\ price > crit.max_price_per_gpu * info.count
                THEN "reject" ELSE "pass"
  ELSE "pass"

\* the ceiling taken as exclusive: a price per GPU equal to it rejects
PricePerGpuCheck_Exclusive(server, crit) ==
  IF Has(crit, "max_price_per_gpu")
  THEN LET price == extract_server_price(server)
           info == extract_gpu_info(server.gpu)
       IN  IF price = NoPrice THEN "reject"
           ELSE IF info.raised THEN "raise"
           ELSE IF info.count > 0 /\ price >= crit.max_price_per_gpu * info.count
                THEN "reject" ELSE "pass"
  ELSE "pass"

\* price-per-GPU ceiling: price / gpu_count > ceiling rejects, compared here
\* as price > ceiling * gpu_count
PricePerGpuCheck(server, crit) ==
  IF Has(crit, "max_price_per_gpu")
  THEN LET price == extract_server_price(server)
           info == extract_gpu_info(server.gpu)
       IN  IF price = NoPrice THEN "reject"
           ELSE IF info.raised THEN "raise"
           ELSE IF info.count > 0 /\ price > crit.max_price_per_gpu * info.count
                THEN "reject" ELSE "pass"
  ELSE "pass"

\* int(gpu_str.split('x')[0]) if 'x' in gpu_str else 1
SplitCount(gpu_string) ==
  LET at == Find(gpu_string, <<"x">>)
      head == SubSeq(gpu_string, 1, at - 1)
  IN  IF at = 0 THEN [raised |-> FALSE, count |-> 1]
      ELSE IF IsInt(head) THEN [raised |-> FALSE, count |-> IntOf(head)]
      ELSE [raised |-> TRUE, count |-> 0]

MinGpuCountCheck(server, crit) ==
  IF Has(crit, "min_gpu_count")
  THEN LET info == SplitCount(server.gpu)
       IN  IF info.raised THEN "raise"
           ELSE IF info.count < crit.min_gpu_count THEN "reject" ELSE "pass"
  ELSE "pass"

MaxGpuCountCheck(server, crit) ==
  IF Has(crit, "max_gpu_count")
  THEN LET info == SplitCount(server.gpu)
       IN  IF info.raised THEN "raise"
           ELSE IF info.count > crit.max_gpu_count THEN "reject" ELSE "pass"
  ELSE "pass"

MinRamCheck(server, crit) ==
  IF Has(crit, "min_ram_gb") /\ server.ram < crit.min_ram_gb THEN "reject" ELSE "pass"

LocationCheck(server, crit) ==
  IF Has(crit, "locations") /\ Len(crit.locations) > 0
     /\ ~\E l \in DOMAIN crit.locations : crit.locations[l] = server.cc
  THEN "reject" ELSE "pass"

MinRatingCheck(server, crit) ==
  IF Has(crit, "min_rating") /\ server.rating < crit.min_rating THEN "reject" ELSE "pass"

\* the first check of the sequence that does not pass decides
RECURSIVE FirstVerdict(_)
FirstVerdict(verdicts) ==
  IF Len(verdicts) = 0 THEN "pass"
  ELSE IF Head(verdicts) # "pass" THEN Head(verdicts)
  ELSE FirstVerdict(Tail(verdicts))

\* _server_matches_criteria: the checks in the order of the code
server_matches_criteria(server, crit) ==
  FirstVerdict(<<GpuModelCheck(server, crit),
                 PricePerGpuCheck(server, crit),
                 MinGpuCountCheck(server, crit),
                 MaxGpuCountCheck(server, crit),
                 MinRamCheck(server, crit),
                 LocationCheck(server, crit),
                 MinRatingCheck(server, crit)>>)

\* a rented listing is skipped before any check
Verdict(server, crit) ==
  IF server.rented THEN "reject" ELSE server_matches_criteria(server, crit)

\* _filter_servers_by_criteria: the listings kept, in the order received; an
\* exception of a check leaves the loop
filter_servers_by_criteria(list, crit) ==
  IF \E k \in DOMAIN list : Verdict(list[k], crit) = "raise"
  THEN [raised |-> TRUE, filtered |-> <<>>]
  ELSE [raised |-> FALSE,
        filtered |-> SelectSeq(list, LAMBDA srv : Verdict(srv, crit) = "pass")]

\* a hunt task's marketplace answer and filters, the ledger left aside
InitHunt ==
  /\ InitLedger
  /\ \E list \in SeqsUpTo(Listings, MaxServers) : servers = Marketplace(list)
  /\ criteria \in CriteriaSet
  /\ matching = <<>>
  /\ hunt_pc = "ready"
  /\ task = NewHuntTask(FALSE, 1)
  /\ InitHuntTask
  /\ InitClients
  /\ InitWatchers
  /\ InitSink
  /\ InitOrderRequest
  /\ InitBalance

\* matching_servers = self._filter_servers_by_criteria(servers, task.filters)
FilterServers ==
  /\ hunt_pc = "ready"
  /\ LET result == filter_servers_by_criteria(servers, criteria)
     IN  /\ matching' = result.filtered
         /\ hunt_pc' = IF result.raised THEN "raised" ELSE "filtered"
  /\ UNCHANGED <<servers, criteria, huntTaskVars>>
  /\ UNCHANGED <<ledgerVars, rateVars, watchVars, balanceVars, sinkVars, orderVars>>

NextHunt == FilterServers

\* the match filter applied to every marketplace answer and criteria
SpecHunt == InitHunt /\ [][NextHunt]_vars

(***************************************************************************)
(* Properties of the match filter.                                         *)
(***************************************************************************)
Matched == Seq2Set(matching)

\* C9: the filter returns no rented listing and, when the ceiling is set, no
\* listing whose price exceeds the ceiling times its GPU count (price divided
\* by the count above the ceiling; with a count of 0 any positive price is)
C9_NoRentedNoOverCeiling ==
  hunt_pc = "filtered" =>
    \A srv \in Matched :
      /\ ~srv.rented
      /\ Has(criteria, "max_price_per_gpu") =>
           ~(extract_server_price(srv) >
               criteria.max_price_per_gpu * extract_gpu_info(srv.gpu).count)

\* C10: when the ceiling is set, no listing without a USD and without a CLORE
\* price is returned
C10_UnknownPriceExcluded ==
  (hunt_pc = "filtered" /\ Has(criteria, "max_price_per_gpu")) =>
    \A srv \in Matched : ~(srv.usd = NoPrice /\ srv.clore = NoPrice)

\* C10 witness: the filter ran with the ceiling set on an answer holding a
\* free listing of unknown price that every other criterion lets through,
\* and returned the answer without it
C10_Witness ==
  /\ hunt_pc = "filtered"
  /\ Has(criteria, "max_price_per_gpu")
  /\ Len(matching) > 0
  /\ \E k \in DOMAIN servers :
       /\ servers[k].usd = NoPrice /\ servers[k].clore = NoPrice
       /\ ~servers[k].rented
       /\ GpuModelCheck(servers[k], criteria) = "pass"
       /\ MinGpuCountCheck(servers[k], criteria) = "pass"
       /\ servers[k] \notin Matched

(***************************************************************************)
(* The match filter over listings that differ in every attribute a         *)
(* criterion reads.                                                        *)
(***************************************************************************)
\* a free listing that every criterion of FilterCriteria lets through
GoodListing ==
  [rented |-> FALSE, gpu |-> Gpu4x4090, usd |-> 4000, clore |-> NoPrice,
   ram |-> 64, cc |-> "US", rating |-> 4]

\* GoodListing and the listings that differ from it in one attribute
FilterListings ==
  {GoodListing,
   [GoodListing EXCEPT !.rented = TRUE],
   [GoodListing EXCEPT !.gpu = GpuPlain3090],
   [GoodListing EXCEPT !.gpu = Gpu0x3090],
   [GoodListing EXCEPT !.gpu = GpuMaxQ],
   [GoodListing EXCEPT !.usd = NoPrice],
   [GoodListing EXCEPT !.ram = 16],
   [GoodListing EXCEPT !.cc = "DE"],
   [GoodListing EXCEPT !.rating = 2]}

\* criteria in which each of the seven keys is present or missing
FilterCriteria ==
  {price @@ models @@ mincount @@ maxcount @@ ram @@ locs @@ rating :
     price \in {NoCriteria, [max_price_per_gpu |-> 1000]},
     models \in {NoCriteria, [gpu_models |-> << <<"4", "0", "9", "0">> >>]},
     mincount \in {NoCriteria, [min_gpu_count |-> 2]},
     maxcount \in {NoCriteria, [max_gpu_count |-> 4]},
     ram \in {NoCriteria, [min_ram_gb |-> 32]},
     locs \in {NoCriteria, [locations |-> <<"US">>]},
     rating \in {NoCriteria, [min_rating |-> 3]}}

\* a hunt task's marketplace answer and filters, every criterion in play
InitFilter ==
  /\ InitLedger
  /\ \E list \in SeqsUpTo(FilterListings, MaxServers) : servers = Marketplace(list)
  /\ criteria \in FilterCriteria
  /\ matching = <<>>
  /\ hunt_pc = "ready"
  /\ task = NewHuntTask(FALSE, 1)
  /\ InitHuntTask
  /\ InitClients
  /\ InitWatchers
  /\ InitSink
  /\ InitOrderRequest
  /\ InitBalance

\* the match filter applied once to each answer and each criteria
SpecFilter == InitFilter /\ [][NextHunt]_vars

\* the GPU count a descriptor states: the number in front of 'x', 1 without one
DescriptorCount(gpu) ==
  LET at == Find(gpu, <<"x">>)
  IN  IF at > 1 /\ IsInt(SubSeq(gpu, 1, at - 1))
      THEN IntOf(SubSeq(gpu, 1, at - 1)) ELSE 1

\* the listing satisfies every criterion present in crit
SatisfiesAll(srv, crit) ==
  /\ Has(crit, "gpu_models") =>
       \E m \in DOMAIN crit.gpu_models : Contains(Upper(srv.gpu), Upper(crit.gpu_models[m]))
  /\ Has(crit, "max_price_per_gpu") =>
       /\ extract_server_price(srv) # NoPrice
       /\ extract_server_price(srv) <= crit.max_price_per_gpu * DescriptorCount(srv.gpu)
  /\ Has(crit, "min_gpu_count") => DescriptorCount(srv.gpu) >= crit.min_gpu_count
  /\ Has(crit, "max_gpu_count") => DescriptorCount(srv.gpu) <= crit.max_gpu_count
  /\ Has(crit, "min_ram_gb") => srv.ram >= crit.min_ram_gb
  /\ Has(crit, "locations") => \E l \in DOMAIN crit.locations : crit.locations[l] = srv.cc
  /\ Has(crit, "min_rating") => srv.rating >= crit.min_rating

\* C11: once the filter has run, what it handed back is exactly the free
\* listings of the answer that satisfy every criterion present, in the
\* order of the answer
C11_FilterExact ==
  hunt_pc # "ready" =>
    matching = SelectSeq(servers, LAMBDA srv : ~srv.rented /\ SatisfiesAll(srv, criteria))

\* the criteria but for the price ceiling
OtherCriteria == [k \in DOMAIN criteria \ {"max_price_per_gpu"} |-> criteria[k]]

\* C12: with the ceiling set, a free listing of known price and of one GPU
\* or more that satisfies the other criteria is returned exactly when its
\* price is at most the ceiling times its GPU count (price per GPU at most
\* the ceiling: equal passes, above fails)
C12_CeilingInclusive ==
  (hunt_pc = "filtered" /\ Has(criteria, "max_price_per_gpu")) =>
    \A k \in DOMAIN servers :
      LET srv == servers[k]
          price == extract_server_price(srv)
      IN  (/\ ~srv.rented
           /\ price # NoPrice
           /\ DescriptorCount(srv.gpu) >= 1
           /\ SatisfiesAll(srv, OtherCriteria))
            => (srv \in Matched <=>
                  price <= criteria.max_price_per_gpu * DescriptorCount(srv.gpu))

\* C12 witness: a 4-GPU listing priced 40.00 was returned under the ceiling
\* 10.00, its price per GPU
C12_Witness ==
  /\ hunt_pc = "filtered"
  /\ Has(criteria, "max_price_per_gpu")
  /\ \E srv \in Matched :
       /\ DescriptorCount(srv.gpu) = 4
       /\ extract_server_price(srv) = 4000
       /\ criteria.max_price_per_gpu * 4 = 4000

(***************************************************************************)
(* The hunt cycle (HuntMonitor._process_single_task,                       *)
(* _process_found_servers, _create_found_alert, _auto_rent_server).        *)
(***************************************************************************)
\* the clock of the model stops at MaxClock ticks
MaxClock == 3
\* the largest max_servers of a task
MaxQuota == 2

\* timedelta(hours=1), in ticks of half an hour
TtlTicks == 2
\* float('inf')
Infinity == 1000000

\* the servers on offer while the task hunts: 501 at 40.00, 502 at 0 and 503
\* with no price in its listing
HuntListings ==
  {[id |-> 501] @@ GoodListing,
   [id |-> 502] @@ [GoodListing EXCEPT !.usd = 0],
   [id |-> 503] @@ [GoodListing EXCEPT !.usd = NoPrice]}

\* a marketplace answer lists a server once
DistinctIds(list) == \A j, k \in DOMAIN list : list[j].id = list[k].id => j = k

\* the answers get_marketplace may give in a hunt cycle
HuntAnswers == {list \in SeqsUpTo(HuntListings, MaxServers) : DistinctIds(list)}

\* task.filters
HuntCriteria == {NoCriteria, [max_price_per_gpu |-> 1000]}

HuntTasks == {NewHuntTask(a, m) : a \in BOOLEAN, m \in 1..MaxQuota}

\* key=lambda s: client.extract_server_price(s)[0] or float('inf')
SortKey(server) ==
  LET price == extract_server_price(server)
  IN  IF price = NoPrice \/ price = 0 THEN Infinity ELSE price

\* list.sort is stable: x goes behind every element whose key is not larger
RECURSIVE InsertSorted(_, _)
InsertSorted(x, sorted) ==
  IF sorted = <<>> THEN <<x>>
  ELSE IF SortKey(Head(sorted)) <= SortKey(x)
       THEN <<Head(sorted)>> \o InsertSorted(x, Tail(sorted))
       ELSE <<x>> \o sorted

\* servers.sort(key=...)
RECURSIVE sort_by_price(_)
sort_by_price(list) ==
  IF list = <<>> THEN <<>>
  ELSE InsertSorted(list[Len(list)], sort_by_price(SubSeq(list, 1, Len(list) - 1)))

\* the dedup cache never consulted: every match is taken as new
IsFresh_Always(cache, server_id, t) == TRUE

\* not (cache_key in self.found_servers and now - last_found < timedelta(hours=1))
IsFresh(cache, server_id, t) ==
  ~(server_id \in DOMAIN cache /\ t - cache[server_id] < TtlTicks)

\* self.found_servers[cache_key] = datetime.now()
Remember(cache, server_id, t) ==
  [k \in DOMAIN cache \cup {server_id} |-> IF k = server_id THEN t ELSE cache[k]]

\* the statistics left as they were
CountFound_Skipped(t) == t

\* task.servers_found += 1
CountFound(t) == [t EXCEPT !.servers_found = @ + 1]

\* _auto_rent_server: 'task.rent_settings' is read first, inside the try; a
\* HuntTask has no such attribute, the AttributeError is caught and False is
\* returned before client.create_order is reached
auto_rent_server(t, server, upstream_ok) ==
  IF "rent_settings" \notin DOMAIN t THEN FALSE ELSE upstream_ok

\* every attempt counted as a placement, the limit not looked at
RentOutcome_CountsAttempt(t, success) == [t EXCEPT !.servers_rented = @ + 1]

\* a failed attempt closes the task
RentOutcome_FailureCloses(t, success) ==
  IF success
  THEN [t EXCEPT !.servers_rented = @ + 1,
                 !.is_active = IF t.servers_rented + 1 >= t.max_servers THEN FALSE ELSE @]
  ELSE [t EXCEPT !.is_active = FALSE]

\* if success: task.servers_rented += 1, and is_active = False at the limit
RentOutcome(t, success) ==
  IF success
  THEN [t EXCEPT !.servers_rented = @ + 1,
                 !.is_active = IF t.servers_rented + 1 >= t.max_servers THEN FALSE ELSE @]
  ELSE t

\* the dedup cache was consulted for the listing at time t
Observe(log, server_id, t) ==
  IF server_id \in DOMAIN log
  THEN [log EXCEPT ![server_id].count = IF @ < 2 THEN @ + 1 ELSE @]
  ELSE [k \in DOMAIN log \cup {server_id} |->
          IF k = server_id THEN [first |-> t, count |-> 1] ELSE log[k]]

\* a hunt task, its filters and an empty dedup cache
InitHuntCycle ==
  /\ InitLedger
  /\ servers = <<>>
  /\ criteria \in HuntCriteria
  /\ matching = <<>>
  /\ hunt_pc = "idle"
  /\ task \in HuntTasks
  /\ InitHuntTask
  /\ InitClients
  /\ InitWatchers
  /\ InitSink
  /\ InitOrderRequest
  /\ InitBalance

\* time passes between two cycles (await asyncio.sleep(self.check_interval)); a
\* cycle itself takes far less than a tick
Tick ==
  /\ hunt_pc = "idle"
  /\ clock < MaxClock
  /\ clock' = clock + 1
  /\ UNCHANGED <<servers, criteria, matching, hunt_pc, task, found_servers, queue,
                 attempts, seen>>
  /\ UNCHANGED <<ledgerVars, rateVars, watchVars, balanceVars, sinkVars, orderVars>>

\* the task is among get_active_hunt_tasks and client.get_marketplace answered
HuntStart ==
  /\ hunt_pc = "idle"
  /\ task.is_active
  /\ servers' \in HuntAnswers
  /\ hunt_pc' = "ready"
  /\ UNCHANGED <<criteria, matching, huntTaskVars>>
  /\ UNCHANGED <<ledgerVars, rateVars, watchVars, balanceVars, sinkVars, orderVars>>

\* _process_single_task is left, by return, break or exception
HuntReturn ==
  /\ hunt_pc' = "idle"
  /\ servers' = <<>>
  /\ matching' = <<>>
  /\ queue' = <<>>
  /\ attempts' = <<>>

\* 'if not matching_servers: return', then _process_found_servers up to its loop
ProcessFound ==
  /\ hunt_pc = "filtered"
  /\ IF matching = <<>> \/ task.servers_rented >= task.max_servers
     THEN HuntReturn
     ELSE /\ queue' = sort_by_price(matching)
          /\ hunt_pc' = "processing"
          /\ UNCHANGED <<servers, matching, attempts>>
  /\ UNCHANGED <<criteria, task, found_servers, clock, seen>>
  /\ UNCHANGED <<ledgerVars, rateVars, watchVars, balanceVars, sinkVars, orderVars>>

\* one iteration of 'for server in servers'; the loop's end is the function's
HandleServer ==
  /\ hunt_pc = "processing"
  /\ IF queue = <<>>
     THEN /\ HuntReturn
          /\ UNCHANGED <<task, found_servers, alerts>>
     ELSE LET server == Head(queue)
              server_id == server.id
          IN  /\ IF ~IsFresh(found_servers, server_id, clock)
                 THEN \* continue
                      /\ queue' = Tail(queue)
                      /\ UNCHANGED <<task, found_servers, alerts, attempts, hunt_pc,
                                     servers, matching>>
                 ELSE /\ found_servers' = Remember(found_servers, server_id, clock)
                      /\ IF extract_server_price(server) = NoPrice
                         THEN \* _create_found_alert formats the price with
                              \* ':.2f': None raises TypeError, which leaves
                              \* _process_single_task
                              /\ HuntReturn
                              /\ UNCHANGED <<task, alerts>>
                         ELSE IF ~task.auto_rent
                         THEN /\ alerts' = create_alert(alerts, Owner, "hunt_found", server_id)
                              /\ task' = CountFound(task)
                              /\ queue' = Tail(queue)
                              /\ UNCHANGED <<attempts, hunt_pc, servers, matching>>
                         ELSE \E upstream_ok \in BOOLEAN :
                                LET counted == CountFound(task)
                                    success == auto_rent_server(counted, server, upstream_ok)
                                    after == RentOutcome(counted, success)
                                    found == create_alert(alerts, Owner, "hunt_found", server_id)
                                IN  /\ alerts' = IF success
                                                 THEN create_alert(found, Owner, "hunt_rented",
                                                                   server_id)
                                                 ELSE found
                                    /\ task' = after
                                    /\ IF success /\ after.servers_rented >= after.max_servers
                                       THEN \* break
                                            HuntReturn
                                       ELSE /\ queue' = Tail(queue)
                                            /\ attempts' = Append(attempts, server)
                                            /\ UNCHANGED <<hunt_pc, servers, matching>>
  /\ UNCHANGED <<criteria, clock, rateVars, watchVars, balanceVars, sinkVars, orderVars>>
  /\ UNCHANGED <<orders, pc, api_orders, db_orders, idx, error, marks, orders0, alerts0>>

ProcessServer == HandleServer /\ UNCHANGED seen

NextHuntCycle == Tick \/ HuntStart \/ FilterServers \/ ProcessFound \/ ProcessServer

\* the hunt loop for one task, cycle after cycle, as the clock runs
SpecHuntCycle == InitHuntCycle /\ [][NextHuntCycle]_vars

\* the same iteration, with a record kept of the listings the dedup cache was
\* consulted for
ProcessServerObserved ==
  /\ HandleServer
  /\ seen' = IF queue = <<>> THEN seen ELSE Observe(seen, Head(queue).id, clock)

NextDedup == Tick \/ HuntStart \/ FilterServers \/ ProcessFound \/ ProcessServerObserved

\* the hunt loop with the history of observations recorded
SpecDedup == InitHuntCycle /\ [][NextDedup]_vars

(***************************************************************************)
(* Properties of the hunt cycle.                                           *)
(***************************************************************************)
\* the number of 'hunt_found' alerts raised for a listing
FoundAlerts(rows, server_id) ==
  Cardinality({k \in DOMAIN rows :
                 rows[k].alert_type = "hunt_found" /\ rows[k].order = server_id})

\* C13: when a match is handled for the second time, less than the TTL after
\* the first time, exactly one 'hunt_found' alert exists for it afterwards;
\* when the second time comes more than the TTL after the first, two exist
C13_DedupWithinTtl ==
  [][(/\ hunt_pc = "processing"
      /\ queue # <<>>
      /\ Head(queue).id \in DOMAIN seen
      /\ seen[Head(queue).id].count = 1)
       => LET server_id == Head(queue).id
              gap == clock - seen[server_id].first
          IN  /\ gap < TtlTicks => FoundAlerts(alerts', server_id) = 1
              /\ gap > TtlTicks => FoundAlerts(alerts', server_id) = 2]_vars

\* C14: the task's servers_found counter equals the number of 'hunt_found'
\* alerts created for the task: one more for each match alerted, none for a
\* match the dedup cache suppresses
C14_FoundCountsAlerts ==
  task.servers_found =
    Cardinality({k \in DOMAIN alerts : alerts[k].alert_type = "hunt_found"})

\* C14 witness: a match alerted in an earlier cycle was matched again within
\* the TTL and skipped, and the counter stands at the one alert
C14_Witness ==
  /\ hunt_pc = "processing"
  /\ queue = <<>>
  /\ task.servers_found = 1
  /\ \E k \in DOMAIN matching :
       /\ matching[k].id \in DOMAIN found_servers
       /\ found_servers[matching[k].id] < clock
       /\ FoundAlerts(alerts, matching[k].id) = 1

EffectivePrice(server) ==
  IF extract_server_price(server) = NoPrice THEN Infinity
  ELSE extract_server_price(server)

\* C17: the matches handed to the controller in a cycle come in non-decreasing
\* order of effective price: none is attempted after a dearer one
C17_CheapestFirst ==
  \A j, k \in DOMAIN attempts :
    j < k => EffectivePrice(attempts[j]) <= EffectivePrice(attempts[k])

\* the step hands a match to the controller and the placement fails
FailedAttempt ==
  /\ Len(attempts') = Len(attempts) + 1
  /\ ~\E k \in DOMAIN alerts' : k > Len(alerts) /\ alerts'[k].alert_type = "hunt_rented"

\* C18: a failed placement leaves servers_rented and is_active as they were
\* and the loop goes on with the matches left in the cycle
C18_FailureLeavesCounters ==
  [][FailedAttempt =>
       /\ task'.servers_rented = task.servers_rented
       /\ task'.is_active = task.is_active
       /\ hunt_pc' = "processing"
       /\ queue' = Tail(queue)]_vars

\* C18 witness: a second match was handed to the controller after the first
\* placement of the cycle had failed
C18_Witness ==
  /\ Len(attempts) = 2
  /\ task.servers_rented = 0
  /\ task.is_active

\* C19: a match is handed to the controller only when the task rents
\* automatically, has rented fewer servers than max_servers, and the match is
\* new or its dedup entry is at least the TTL old; and no listing is handed
\* over twice in a cycle
C19_AttemptOnlyFreshUnderQuota ==
  [][Len(attempts') > Len(attempts) =>
       /\ task.auto_rent
       /\ task.servers_rented < task.max_servers
       /\ queue # <<>>
       /\ attempts' = Append(attempts, Head(queue))
       /\ \/ Head(queue).id \notin DOMAIN found_servers
          \/ clock - found_servers[Head(queue).id] >= TtlTicks
       /\ \A k \in DOMAIN attempts : attempts[k].id # Head(queue).id]_vars

\* C19 witness: of two matches of a cycle, one was handed to the controller
\* and the other, alerted less than the TTL before, was not
C19_Witness ==
  /\ hunt_pc = "processing"
  /\ queue = <<>>
  /\ Len(matching) = 2
  /\ Len(attempts) = 1
  /\ \E k \in DOMAIN matching :
       /\ matching[k].id # attempts[1].id
       /\ matching[k].id \in DOMAIN found_servers
       /\ found_servers[matching[k].id] < clock

(***************************************************************************)
(* The rate limit of the client (CloreAPIClient._make_request).            *)
(***************************************************************************)
\* self._request_delay = 1.1 seconds, in ticks of 0.55 s
DelayTicks == 2

\* self._last_request_time = datetime.now(); await self.client.request(...)
Dispatch(p, c) ==
  /\ last_request_time' = [last_request_time EXCEPT ![c] = wall]
  /\ last_dispatch' = wall
  /\ callers' = [callers EXCEPT ![p] = [pc |-> "sent", client |-> c, wake |-> 0,
                                        sent |-> callers[p].sent + 1]]

\* the callers of the list but p, in the same order
Without(list, p) == SelectSeq(list, LAMBDA q : q # p)

\* a caller enters _make_request of an instance: it sends at once when the
\* instance has sent nothing yet or the delay has passed, else it computes
\* its wait from what it reads now and goes to sleep
Request(p, c) ==
  /\ callers[p].pc = "idle"
  /\ IF last_request_time[c] # NoStamp /\ wall - last_request_time[c] < DelayTicks
     THEN /\ callers' = [callers EXCEPT ![p] =
                           [pc |-> "sleeping", client |-> c,
                            wake |-> wall + (DelayTicks - (wall - last_request_time[c])),
                            sent |-> 0]]
          /\ waiting' = Append(waiting, p)
          /\ UNCHANGED <<last_request_time, last_dispatch>>
     ELSE /\ Dispatch(p, c)
          /\ UNCHANGED waiting
  /\ UNCHANGED <<wall, last_result>>
  /\ UNCHANGED <<ledgerVars, huntVars, watchVars, balanceVars, sinkVars, orderVars>>

\* asyncio.sleep(wait_time) is over: the request is sent, nothing is read again
Wake(p) ==
  /\ callers[p].pc = "sleeping"
  /\ wall >= callers[p].wake
  /\ Dispatch(p, callers[p].client)
  /\ waiting' = Without(waiting, p)
  /\ UNCHANGED <<wall, last_result>>
  /\ UNCHANGED <<ledgerVars, huntVars, watchVars, balanceVars, sinkVars, orderVars>>

\* the request is over, with an answer or with a failure: _make_request
\* returns the answer or raises, and is left
Respond(p) ==
  /\ callers[p].pc = "sent"
  /\ \E ans \in Answers :
       IF Retries(ans)
       THEN /\ callers' = [callers EXCEPT ![p].pc = "sleeping", ![p].wake = wall]
            /\ waiting' = Append(waiting, p)
            /\ UNCHANGED last_result
       ELSE /\ callers' = [callers EXCEPT ![p] =
                             [pc |-> "idle", client |-> 1, wake |-> 0, sent |-> 0]]
            /\ last_result' = [answer |-> ans, requests |-> callers[p].sent,
                               outcome |-> make_request(ans)]
            /\ UNCHANGED waiting
  /\ UNCHANGED <<wall, last_request_time, last_dispatch>>
  /\ UNCHANGED <<ledgerVars, huntVars, watchVars, balanceVars, sinkVars, orderVars>>

\* a watcher cycle opens its own client: 'async with CloreAPIClient(key)'
NewClient(c) ==
  /\ \A p \in Callers : callers[p].pc # "idle" => callers[p].client # c
  /\ last_request_time[c] # NoStamp
  /\ last_request_time' = [last_request_time EXCEPT ![c] = NoStamp]
  /\ UNCHANGED <<wall, callers, last_dispatch, waiting, last_result>>
  /\ UNCHANGED <<ledgerVars, huntVars, watchVars, balanceVars, sinkVars, orderVars>>

\* time passes
WallTick ==
  /\ wall < MaxWall
  /\ wall' = wall + 1
  /\ UNCHANGED <<last_request_time, callers, last_dispatch, waiting, last_result>>
  /\ UNCHANGED <<ledgerVars, huntVars, watchVars, balanceVars, sinkVars, orderVars>>

NextRate ==
  \/ \E p \in Callers, c \in Clients : Request(p, c)
  \/ \E p \in Callers : Wake(p)
  \/ \E p \in Callers : Respond(p)
  \/ \E c \in Clients : NewClient(c)
  \/ WallTick

\* the callers of the clients, the watchers' cycles left aside
SpecRate == Init /\ [][NextRate]_vars

\* a request is handed to the HTTP client in this step
Dispatches == \E p \in Callers : callers[p].pc # "sent" /\ callers'[p].pc = "sent"

\* C20: a request is dispatched at least the delay after the request
\* dispatched before it, whichever caller and whichever instance sent either
C20_MinSpacing ==
  [][Dispatches => (last_dispatch = NoStamp \/ wall - last_dispatch >= DelayTicks)]_vars

\* caller p's request is handed to the HTTP client in this step
Dispatched(p) == callers[p].pc # "sent" /\ callers'[p].pc = "sent"

\* p stands before q in the list
Before(list, p, q) ==
  \E i, j \in DOMAIN list : i < j /\ list[i] = p /\ list[j] = q

\* C21: the calls made to one client instance are dispatched in the order
\* in which they were made: no request is dispatched while a call made
\* earlier to the same instance is still waiting to be dispatched
C21_FifoDispatch ==
  [][\A p \in Callers :
       Dispatched(p) =>
         \A q \in Callers \ {p} :
           (callers[q].pc = "sleeping" /\ callers[q].client = callers'[p].client)
             => Before(waiting, p, q)]_vars

\* C22: a call returns a response exactly when the answer is a decoded body
\* whose code is 0, and the response is that body; for every other code, a
\* missing code, a transport or HTTP failure and an undecodable body it
\* raises CloreAPIError and returns nothing
C22_ReturnsOnlyCodeZero ==
  last_result # NoResult =>
    LET ans == last_result.answer
        out == last_result.outcome
    IN  IF ans.kind = "json" /\ ans.code = 0
        THEN out.kind = "returned" /\ out.response = ans
        ELSE out.kind = "raised"

\* C22 witness: a call answered with code 5 (rate limited) has raised
C22_Witness ==
  /\ last_result.answer.kind = "json"
  /\ last_result.answer.code = 5
  /\ last_result.outcome.kind = "raised"

\* C23: the error raised for an answer with a non-zero code carries that
\* code and the raw response, and differs from what a transport failure
\* raises
C23_ErrorCarriesCode ==
  (last_result.answer.kind = "json" /\ last_result.answer.code \in 1..MaxCode) =>
    /\ last_result.outcome.code = last_result.answer.code
    /\ last_result.outcome.response = last_result.answer

\* C24: a call sends at most one request, and a call that has raised has
\* sent exactly one
C24_NoRetry ==
  /\ \A p \in Callers : callers[p].sent <= 1
  /\ last_result # NoResult => last_result.requests = 1

\* C24 witness: a call has ended with an error after its one request
C24_Witness ==
  /\ last_result.outcome.kind = "raised"
  /\ last_result.requests = 1
  /\ last_result.answer.kind = "transport"

(***************************************************************************)
(* The watcher loops (start() and the cycle of each monitor).              *)
(***************************************************************************)
\* a failing subject ends the loop over the subjects
NextIndex_StopAtFailure(i, ok) == IF ok THEN i + 1 ELSE MaxSubjects + 1

\* "for user in users: try: ... except Exception: logger.error(...)": the
\* loop goes on with the next subject whether the subject failed or not
NextIndex(i, ok) == i + 1

\* an error in the cycle ends the loop
AfterFault_Exit(w) == "stopped"

\* "except Exception as e: logger.error(...)" in start(): the loop goes on to
\* its sleep
AfterFault(w) == "idle"

\* the loop does not read self.running
AfterSleep_Always(running) == "fetching"

\* "while self.running": read when the sleep has returned
AfterSleep(running) == IF running THEN "fetching" ELSE "stopped"

\* start(): self.running = True, and the loop is entered
WatcherStart(w) ==
  /\ watchers[w].pc = "stopped"
  /\ watchers' = [watchers EXCEPT ![w].running = TRUE, ![w].pc = "fetching"]
  /\ UNCHANGED <<ledgerVars, huntVars, rateVars, balanceVars, sinkVars, orderVars>>

\* stop(): self.running = False
WatcherStop(w) ==
  /\ watchers[w].running
  /\ watchers' = [watchers EXCEPT ![w].running = FALSE]
  /\ UNCHANGED <<ledgerVars, huntVars, rateVars, balanceVars, sinkVars, orderVars>>

\* "async with get_db() as db: users = await get_active_users(db)": the
\* subjects are read, or the session or the query raises and the cycle is over
LoadSubjects(w) ==
  /\ watchers[w].pc = "fetching"
  /\ \E ok \in BOOLEAN :
       watchers' = [watchers EXCEPT ![w].pc = IF ok THEN "subjects" ELSE "faulted"]
  /\ UNCHANGED <<ledgerVars, huntVars, rateVars, balanceVars, sinkVars, orderVars>>

\* one iteration of the loop over the subjects: the subject's check returns
\* or raises, and what it raises is logged
HandleSubject(w) ==
  /\ watchers[w].pc = "subjects"
  /\ watchers[w].idx <= MaxSubjects
  /\ \E ok \in BOOLEAN :
       watchers' = [watchers EXCEPT
                      ![w].handled = @ \cup {watchers[w].idx},
                      ![w].failed = IF ok THEN @ ELSE @ \cup {watchers[w].idx},
                      ![w].idx = NextIndex(@, ok)]
  /\ UNCHANGED <<ledgerVars, huntVars, rateVars, balanceVars, sinkVars, orderVars>>

\* the loop over the subjects is over and the session is left: the cycle
\* returns, or the commit of the session raises
CycleReturn(w) ==
  /\ watchers[w].pc = "subjects"
  /\ watchers[w].idx > MaxSubjects
  /\ \E ok \in BOOLEAN :
       watchers' = [watchers EXCEPT ![w].pc = IF ok THEN "idle" ELSE "faulted",
                                    ![w].idx = 1, ![w].handled = {}, ![w].failed = {}]
  /\ UNCHANGED <<ledgerVars, huntVars, rateVars, balanceVars, sinkVars, orderVars>>

\* the except clause of start() has caught the cycle's error
LogFault(w) ==
  /\ watchers[w].pc = "faulted"
  /\ watchers' = [watchers EXCEPT ![w].pc = AfterFault(w)]
  /\ UNCHANGED <<ledgerVars, huntVars, rateVars, balanceVars, sinkVars, orderVars>>

\* "await asyncio.sleep(self.check_interval)" returns and "while
\* self.running" is evaluated
SleepOver(w) ==
  /\ watchers[w].pc = "idle"
  /\ watchers' = [watchers EXCEPT ![w].pc = AfterSleep(watchers[w].running)]
  /\ UNCHANGED <<ledgerVars, huntVars, rateVars, balanceVars, sinkVars, orderVars>>

\* a step of the loop of watcher w
WatcherLoop(w) ==
  LoadSubjects(w) \/ HandleSubject(w) \/ CycleReturn(w) \/ LogFault(w) \/ SleepOver(w)

NextWatch ==
  \E w \in Watchers : WatcherStart(w) \/ WatcherStop(w) \/ WatcherLoop(w)

\* the three loops on one event loop; every await of a loop returns (the
\* HTTP client has a timeout of 30 s) and the event loop runs every task
\* that is ready
SpecWatch ==
  Init /\ [][NextWatch]_vars /\ \A w \in Watchers : WF_vars(WatcherLoop(w))

\* the loop over the subjects of watcher w ends in this step
SubjectsDone(w) == watchers[w].pc = "subjects" /\ watchers'[w].pc # "subjects"

\* C25: when the loop over the subjects of a cycle ends, the check of every
\* subject was run, whichever subjects before it failed
C25_FailureIsolated ==
  [][\A w \in Watchers : SubjectsDone(w) => watchers[w].handled = Subjects]_vars

\* C25 witness: in a cycle of the server watcher the first subject failed
\* and the second was handled
C25_Witness ==
  /\ 1 \in watchers["server"].failed
  /\ 2 \in watchers["server"].handled

\* C26: a loop that was not told to stop starts a cycle again and again, and
\* a cycle that ended with an error is followed by another cycle
C26_LoopSurvivesFaults ==
  \A w \in Watchers :
    /\ []<>(~watchers[w].running \/ watchers[w].pc = "fetching")
    /\ (watchers[w].pc = "faulted") ~> (~watchers[w].running \/ watchers[w].pc = "fetching")

\* C26 witness: a cycle of the balance watcher has ended with an error and
\* stop was not requested
C26_Witness == watchers["balance"].pc = "faulted" /\ watchers["balance"].running

\* C31: a loop that was told to stop starts no cycle when its sleep is
\* over, whether stop came during the cycle or during the sleep, and the
\* loop ends
C31_StopObserved ==
  /\ [][\A w \in Watchers :
          (~watchers[w].running /\ watchers[w].pc = "idle") => watchers'[w].pc # "fetching"]_vars
  /\ \A w \in Watchers : (~watchers[w].running) ~> (watchers[w].pc = "stopped")

\* C31 witness: stop has reached the server watcher during a cycle or
\* during its sleep
C31_Witness ==
  /\ ~watchers["server"].running
  /\ watchers["server"].pc \in {"idle", "subjects"}

(***************************************************************************)
(* The balance cycle (BalanceMonitor._check_user_balance,                  *)
(* save_balance_snapshot, get_balance_history).                            *)
(***************************************************************************)
\* the balance clock stops at MaxUtc ticks (a tick is five minutes)
MaxUtc == 13
\* balances recorded before the model stops recording more
MaxHistory == 3

\* timedelta(minutes=10) and timedelta(hours=1), in ticks of five minutes
Window10 == 2
Window60 == 12

\* the CLORE balances get_wallets may answer with
Balances == {79, 80, 100}
\* the balance thresholds an owner may have set, in cents: none, or 1.60 USD
Thresholds == {NoThreshold, 160}

\* scalar_one_or_none() found no row
NoRecord == [timestamp |-> -1, clore_balance |-> 0, usd_equivalent |-> 0,
             clore_change_10min |-> 0, clore_change_1hour |-> 0]

\* "WHERE timestamp >= since ORDER BY timestamp DESC LIMIT 1": the rows are
\* stored in the order of their timestamps, so the youngest row is the last
LatestSince(rows, since) ==
  LET within == {k \in DOMAIN rows : rows[k].timestamp >= since}
  IN  IF within = {} THEN NoRecord
      ELSE rows[CHOOSE k \in within : \A j \in within : j <= k]

\* the change against a missing record is the whole balance
Change_FromZero(clore_balance, prev) ==
  clore_balance - (IF prev = NoRecord THEN 0 ELSE prev.clore_balance)

\* "clore_balance - prev.clore_balance if prev else 0"
Change(clore_balance, prev) ==
  IF prev = NoRecord THEN 0 ELSE clore_balance - prev.clore_balance

\* save_balance_snapshot: the youngest row of the last ten minutes and of
\* the last hour are read, and a row with the two changes is added
save_balance_snapshot(rows, clore_balance, usd_equivalent, now) ==
  LET prev_10min_record == LatestSince(rows, now - Window10)
      prev_1hour_record == LatestSince(rows, now - Window60)
  IN  Append(rows, [timestamp |-> now,
                    clore_balance |-> clore_balance,
                    usd_equivalent |-> usd_equivalent,
                    clore_change_10min |-> Change(clore_balance, prev_10min_record),
                    clore_change_1hour |-> Change(clore_balance, prev_1hour_record)])

\* get_balance_history(db, user.id, hours=1): the rows of the last hour,
\* the youngest first
get_balance_history(rows, now) ==
  LET within == SelectSeq(rows, LAMBDA r : r.timestamp >= now - Window60)
  IN  [k \in DOMAIN within |-> within[Len(within) + 1 - k]]

\* a drop of 20 percent counts as a sharp drop too
DropExceeds_Inclusive(oldest_balance, current) ==
  (oldest_balance - current) * 100 >= 20 * oldest_balance

\* "(oldest - current) / oldest * 100 > 20", for oldest > 0
DropExceeds(oldest_balance, current) ==
  (oldest_balance - current) * 100 > 20 * oldest_balance

\* _check_balance_drop: the oldest row of the last hour is compared with the
\* current balance
check_balance_drop(alert_rows, rows, current_clore_balance, now) ==
  LET hist == get_balance_history(rows, now)
  IN  IF hist = <<>> THEN alert_rows
      ELSE LET oldest == hist[Len(hist)]
           IN  IF oldest.clore_balance > 0
                    /\ DropExceeds(oldest.clore_balance, current_clore_balance)
               THEN create_alert(alert_rows, Owner, "balance_drop", 0)
               ELSE alert_rows

\* the balance section of _check_user_balance: "balance_low" when a
\* threshold is set and the USD equivalent is below it
check_balance_low(alert_rows, threshold, total_usd) ==
  IF threshold # NoThreshold /\ total_usd < threshold
  THEN create_alert(alert_rows, Owner, "balance_low", 0)
  ELSE alert_rows

\* an owner with or without a balance threshold, and no balance recorded
InitBalanceCycle ==
  /\ InitLedger
  /\ servers = <<>>
  /\ criteria = NoCriteria
  /\ matching = <<>>
  /\ hunt_pc = "ready"
  /\ task = NewHuntTask(FALSE, 1)
  /\ InitHuntTask
  /\ InitClients
  /\ InitWatchers
  /\ InitSink
  /\ InitOrderRequest
  /\ history = <<>>
  /\ utc = 0
  /\ \E threshold \in Thresholds :
       user = [DefaultUser EXCEPT !.alert_balance_threshold = threshold]

\* time passes
UtcTick ==
  /\ utc < MaxUtc
  /\ utc' = utc + 1
  /\ UNCHANGED <<history, user>>
  /\ UNCHANGED <<ledgerVars, huntVars, rateVars, watchVars, sinkVars, orderVars>>

\* _check_user_balance once get_wallets has answered with a CLORE wallet:
\* the snapshot is saved, then the threshold and the drop are checked
CheckUserBalance ==
  /\ Len(history) < MaxHistory
  /\ \E clore_balance \in Balances :
       LET total_usd == clore_balance * CloreToUsdCents
           saved == save_balance_snapshot(history, clore_balance, total_usd, utc)
       IN  /\ history' = saved
           /\ alerts' = check_balance_drop(
                           check_balance_low(alerts, user.alert_balance_threshold, total_usd),
                           saved, clore_balance, utc)
  /\ UNCHANGED <<utc, user>>
  /\ UNCHANGED <<orders, pc, api_orders, db_orders, idx, error, marks, orders0, alerts0>>
  /\ UNCHANGED <<huntVars, rateVars, watchVars, sinkVars, orderVars>>

NextBalance == UtcTick \/ CheckUserBalance

\* the balance cycles of one owner
SpecBalance == InitBalanceCycle /\ [][NextBalance]_vars

\* a balance is recorded in this step
Records == Len(history') = Len(history) + 1
\* the row the step adds
NewRecord == history'[Len(history')]
\* the rows of the table that are at least the given number of ticks old
AtLeastOld(rows, age) == {k \in DOMAIN rows : rows[k].timestamp <= utc - age}
\* the youngest of the rows picked
Youngest(rows, picked) == rows[CHOOSE k \in picked : \A j \in picked : j <= k]
\* the 'balance_drop' alerts of the table
DropAlerts(rows) == {k \in DOMAIN rows : rows[k].alert_type = "balance_drop"}

\* C27: the 10-minute (1-hour) change stored with a new record is the
\* balance minus the balance of the youngest earlier record that is at
\* least ten minutes (one hour) old
C27_WindowedDelta ==
  [][Records =>
       /\ AtLeastOld(history, Window10) # {} =>
            NewRecord.clore_change_10min =
              NewRecord.clore_balance
                - Youngest(history, AtLeastOld(history, Window10)).clore_balance
       /\ AtLeastOld(history, Window60) # {} =>
            NewRecord.clore_change_1hour =
              NewRecord.clore_balance
                - Youngest(history, AtLeastOld(history, Window60)).clore_balance]_vars

\* C28: the first balance of an owner is recorded with both changes 0 and
\* raises no 'balance_drop' alert
C28_ColdStartZero ==
  [][(Records /\ history = <<>>) =>
       /\ NewRecord.clore_change_10min = 0
       /\ NewRecord.clore_change_1hour = 0
       /\ DropAlerts(alerts') = DropAlerts(alerts)]_vars

\* C28 witness: a first balance, not zero, was recorded
C28_Witness ==
  /\ Len(history) = 1
  /\ history[1].clore_balance = 100
  /\ history[1].clore_change_1hour = 0

\* the oldest of the rows of the last hour, the new row among them
OldestInHour(rows) ==
  rows[CHOOSE k \in DOMAIN rows :
         /\ rows[k].timestamp >= utc - Window60
         /\ \A j \in DOMAIN rows : rows[j].timestamp >= utc - Window60 => k <= j]

\* C29: a balance cycle creates one 'balance_drop' alert when the balance
\* is more than 20 percent below the oldest balance recorded in the last
\* hour, and none otherwise
C29_DropAlertExact ==
  [][Records =>
       LET oldest == OldestInHour(history')
           current == NewRecord.clore_balance
       IN  IF (oldest.clore_balance - current) * 5 > oldest.clore_balance
           THEN Cardinality(DropAlerts(alerts')) = Cardinality(DropAlerts(alerts)) + 1
           ELSE DropAlerts(alerts') = DropAlerts(alerts)]_vars

\* C29 witness: 100 was recorded, then 79 within the hour, and one
\* 'balance_drop' alert exists; a later 80 against 100 would add none
C29_Witness ==
  /\ Len(history) = 2
  /\ history[1].clore_balance = 100
  /\ history[2].clore_balance = 79
  /\ history[2].timestamp - history[1].timestamp <= Window60
  /\ Cardinality(DropAlerts(alerts)) = 1

(***************************************************************************)
(* Expiry warnings (ServerMonitor._check_order_expiry) with the orders'    *)
(* times.                                                                  *)
(***************************************************************************)
\* the model stops fetching once the alerts table holds MaxAlertRows rows
MaxAlertRows == 3
\* upstream payloads with their creation time 'ct' and maximum rental time
\* 'mrl' (hours; 0 is a missing field): expiring in 5 h, in 6 h, expired an
\* hour ago, and without mrl
OrderTimes == {[ct |-> 10, mrl |-> 5], [ct |-> 10, mrl |-> 6],
               [ct |-> 4, mrl |-> 5], [ct |-> 10, mrl |-> 0]}
TimedOrders ==
  {[id |-> i, spend |-> 0, ct |-> t.ct, mrl |-> t.mrl] : i \in OrderIds, t \in OrderTimes}

\* client.get_my_orders answered with a list of payloads with times
FetchTimed ==
  /\ pc = "idle"
  /\ Len(alerts) < MaxAlertRows
  /\ \E list \in SeqsUpTo(TimedOrders, MaxApiOrders) : api_orders' = list
  /\ error' = NoError
  /\ pc' = "fetched"
  /\ UNCHANGED <<orders, alerts, db_orders, idx, marks, orders0, alerts0>>
  /\ UNCHANGED <<huntVars, rateVars, watchVars, balanceVars, sinkVars, orderVars>>

NextExpiry == FetchFails \/ FetchTimed \/ ReadActive \/ CheckNewOrder \/ CheckCompleted

\* the reconciliation cycle with the expiry check computed from the payloads
SpecExpiry == Init /\ [][NextExpiry]_vars

\* the 'order_expiring' alerts created for id c since the cycle read the ledger
NewExpiryAlerts(rows, c) ==
  {a \in (alerts0 + 1)..Len(rows) :
     rows[a].alert_type = "order_expiring" /\ rows[a].order = c}

\* C30: at the end of a cycle whose fetch succeeded, one 'order_expiring'
\* alert was created in the cycle for each upstream order with
\* 0 < hours_left <= threshold, and none for any other order, whatever
\* earlier cycles have created
C30_ExpiryWarningPerCycle ==
  [][CycleEnds =>
       \A c \in OrderIds :
         Cardinality(NewExpiryAlerts(alerts', c)) =
           Cardinality({k \in DOMAIN api_orders :
                          api_orders[k].id = c /\ IsExpiring(api_orders[k])})]_vars

(***************************************************************************)
(* Shutdown during a reconciliation cycle (main: task.cancel()).           *)
(***************************************************************************)
\* main cancels the monitor's task: CancelledError is raised at the await
\* the cycle is suspended at. It is no Exception, so neither the except
\* clause of _check_active_orders nor the rollback of get_db sees it;
\* what save_order, update_order_status and create_alert have committed
\* stays, and the loop is gone
CancelTask ==
  /\ pc \in {"fetched", "new", "completed"}
  /\ error' = [kind |-> "CancelledError", order |-> 0]
  /\ pc' = "cancelled"
  /\ idx' = 1
  /\ api_orders' = <<>>
  /\ db_orders' = <<>>
  /\ orders0' = NoOrders
  /\ alerts0' = 0
  /\ UNCHANGED <<orders, alerts, marks>>
  /\ UNCHANGED <<huntVars, rateVars, watchVars, balanceVars, sinkVars, orderVars>>

NextShutdown == Reconcile \/ CancelTask

\* the reconciliation loop until the program is shut down
SpecShutdown == Init /\ [][NextShutdown]_vars

\* the cycle has written nothing yet
NoneApplied ==
  pc = "fetched" \/ (orders = orders0 /\ Len(alerts) = alerts0)
\* the cycle has written all it writes: every upstream id is active, every
\* id read as active and absent upstream is expired
AllApplied ==
  /\ pc # "fetched"
  /\ \A c \in ApiIds : c \in ActiveIds(orders)
  /\ \A c \in DbIds \ ApiIds : \A k \in DOMAIN orders[c] : orders[c][k].status = "expired"

\* C32: a cycle that is cancelled has applied all of its creations, updates
\* and expirations for the owner, or none of them
C32_CancelAllOrNothing ==
  [][(pc # "cancelled" /\ pc' = "cancelled") => (NoneApplied \/ AllApplied)]_vars

(***************************************************************************)
(* The alert service (services/alerts.py) and the columns it writes        *)
(* (crud.get_unsent_alerts, crud.mark_alert_sent).                         *)
(***************************************************************************)
\* Alert.error of a row that no failure was recorded for (NULL)
NoText == ""

\* Alert.is_sent of alert a: False until mark_alert_sent has written the row
IsSent(marked, a) == a \in DOMAIN marked /\ marked[a].is_sent

\* get_unsent_alerts: the owner's alerts with is_sent false, oldest first
get_unsent_alerts(rows, marked, user_id) ==
  SelectSeq([a \in 1..Len(rows) |-> a],
            LAMBDA a : rows[a].user_id = user_id /\ ~IsSent(marked, a))

\* mark_alert_sent: is_sent becomes True whether an error is handed in or
\* not; the error column is written only for a non-empty error
mark_alert_sent(marked, alert_id, err) ==
  LET old == IF alert_id \in DOMAIN marked THEN marked[alert_id].error ELSE NoText
      row == [is_sent |-> TRUE, error |-> IF err # NoText THEN err ELSE old]
  IN  [a \in DOMAIN marked \cup {alert_id} |-> IF a = alert_id THEN row ELSE marked[a]]

\* what db.execute does with the plain string of _process_alerts: it runs it
\* (SQLAlchemy 1.x) or refuses it with ArgumentError (SQLAlchemy 2, which
\* database/session.py asks for with async_sessionmaker)
RawQueries == {"rows", "ArgumentError"}

\* _process_alerts up to its loop: the owners with unsent alerts and their
\* unsent alerts; an exception ends the cycle and is logged by start()
ProcessAlerts(answer) ==
  /\ sink_pc \in {"idle", "failed"}
  /\ IF answer = "rows"
     THEN LET unsent == get_unsent_alerts(alerts, delivery, Owner)
          IN  /\ user_alerts' = unsent
              /\ sink_pc' = IF unsent = <<>> THEN "idle" ELSE "sending"
     ELSE /\ user_alerts' = <<>>
          /\ sink_pc' = "failed"
  /\ UNCHANGED <<delivery, channel>>
  /\ UNCHANGED <<ledgerVars, huntVars, rateVars, watchVars, balanceVars, orderVars>>

\* how one _send_alert may go: the message is accepted and the row marked;
\* the user query or send_message raises; send_message succeeds and the
\* commit of mark_alert_sent raises; the database fails in the except
\* clause as well (after a send that went through or not)
SendOutcomes == {"sent", "send_failed", "mark_failed", "db_failed", "sent_db_failed"}

\* _send_alert for the next alert of the list read by _process_alerts
SendAlert(outcome) ==
  /\ sink_pc = "sending"
  /\ LET alert == Head(user_alerts)
         rest == Tail(user_alerts)
     IN  /\ channel' = IF outcome \in {"sent", "mark_failed", "sent_db_failed"}
                        THEN channel \cup {alert} ELSE channel
         /\ delivery' = CASE outcome = "sent" -> mark_alert_sent(delivery, alert, NoText)
                          [] outcome = "send_failed" -> mark_alert_sent(delivery, alert, "send")
                          [] outcome = "mark_failed" -> mark_alert_sent(delivery, alert, "commit")
                          [] OTHER -> delivery
         /\ IF outcome \in {"db_failed", "sent_db_failed"}
            THEN user_alerts' = <<>> /\ sink_pc' = "failed"
            ELSE /\ user_alerts' = rest
                 /\ sink_pc' = IF rest = <<>> THEN "idle" ELSE "sending"
  /\ UNCHANGED <<ledgerVars, huntVars, rateVars, watchVars, balanceVars, orderVars>>

AlertService ==
  \/ \E answer \in RawQueries : ProcessAlerts(answer)
  \/ \E outcome \in SendOutcomes : SendAlert(outcome)

\* the alert kinds the watchers write (balance_monitor.py, server_monitor.py)
AlertTypes == {"balance_low", "order_expired"}

\* a watcher writes an alert for the owner
WatcherAlert ==
  /\ Len(alerts) < MaxAlertRows
  /\ \E alert_type \in AlertTypes : alerts' = create_alert(alerts, Owner, alert_type, 0)
  /\ UNCHANGED <<orders, pc, api_orders, db_orders, idx, error, marks, orders0, alerts0>>
  /\ UNCHANGED <<huntVars, rateVars, watchVars, balanceVars, sinkVars, orderVars>>

NextSink == WatcherAlert \/ AlertService

\* watchers writing alerts and the alert service sending them; the service
\* goes on, and its query and its sends succeed again and again while they
\* are tried
SpecSink ==
  /\ Init /\ [][NextSink]_vars
  /\ WF_vars(AlertService)
  /\ SF_vars(ProcessAlerts("rows"))
  /\ SF_vars(SendAlert("sent"))

AlertIds == 1..MaxAlertRows

\* C33: an alert is marked as sent only after the chat accepted its message,
\* so an alert whose send failed stays unsent, and every alert written is
\* delivered in the end
C33_AtLeastOnce ==
  /\ [](\A a \in AlertIds : IsSent(delivery, a) => a \in channel)
  /\ \A a \in AlertIds : (a <= Len(alerts)) ~> (a \in channel)

\* C34: no step deletes or changes an alert row, the alert ids only grow, an
\* alert marked as sent stays so, and the columns of delivery are written
\* by the alert service's _send_alert only
C34_AlertsAppendOnly ==
  [][/\ Len(alerts') >= Len(alerts)
     /\ \A a \in 1..Len(alerts) : alerts'[a] = alerts[a]
     /\ \A a \in AlertIds : IsSent(delivery, a) => IsSent(delivery', a)
     /\ (delivery' # delivery) => (sink_pc = "sending" /\ alerts' = alerts)]_vars

\* the service has marked the first alert, and watchers have written
\* alerts since that the service has not touched
C34_Witness ==
  /\ IsSent(delivery, 1)
  /\ Len(alerts) = MaxAlertRows
  /\ ~IsSent(delivery, MaxAlertRows)
  /\ alerts[1].alert_type # alerts[MaxAlertRows].alert_type

(***************************************************************************)
(* Order calls of the client (CloreAPIClient.create_order, cancel_order).  *)
(* A text is modelled by its length; s[:n] has length min(len(s), n).      *)
(***************************************************************************)
\* jupyter_token[:32], ssh_password[:32]
TokenLimit == 32
\* ssh_key[:3072]
KeyLimit == 3072
\* issue[:2048]
IssueLimit == 2048

\* lengths of the texts handed in: none (None or ''), the longest that
\* fits, and one character more
TokenLens == {0, TokenLimit, TokenLimit + 1}
KeyLens == {0, KeyLimit, KeyLimit + 1}
IssueLens == {0, IssueLimit, IssueLimit + 1}

\* s[:limit]
Slice(len, limit) == IF len <= limit THEN len ELSE limit

\* an optional text is put into data only if it is not empty
Field(name, len, limit) ==
  IF len > 0 THEN [k \in {name} |-> Slice(len, limit)] ELSE [k \in {} |-> 0]

\* the credential part of the data built by create_order
create_order_data(jupyter_token, ssh_password, ssh_key) ==
  Field("jupyter_token", jupyter_token, TokenLimit)
    @@ Field("ssh_password", ssh_password, TokenLimit)
    @@ Field("ssh_key", ssh_key, KeyLimit)

\* the data built by cancel_order but for the id
cancel_order_data(issue) == Field("issue", issue, IssueLimit)

\* create_order: the data is built and handed to _make_request (of a client
\* of its own, as in _auto_rent_server), whatever the lengths are
CreateOrder ==
  /\ \E jupyter_token \in TokenLens, ssh_password \in TokenLens, ssh_key \in KeyLens,
        ans \in Answers :
       order_request' =
         [op |-> "create_order",
          given |-> [jupyter_token |-> jupyter_token, ssh_password |-> ssh_password,
                     ssh_key |-> ssh_key],
          data |-> create_order_data(jupyter_token, ssh_password, ssh_key),
          sent |-> TRUE,
          outcome |-> make_request(ans)]
  /\ UNCHANGED <<ledgerVars, huntVars, rateVars, watchVars, balanceVars, sinkVars>>

\* cancel_order: likewise
CancelOrder ==
  /\ \E issue \in IssueLens, ans \in Answers :
       order_request' =
         [op |-> "cancel_order",
          given |-> [issue |-> issue],
          data |-> cancel_order_data(issue),
          sent |-> TRUE,
          outcome |-> make_request(ans)]
  /\ UNCHANGED <<ledgerVars, huntVars, rateVars, watchVars, balanceVars, sinkVars>>

NextOrderRequest == CreateOrder \/ CancelOrder

\* order calls with texts of every length
SpecOrderRequest == Init /\ [][NextOrderRequest]_vars

\* a text handed in is longer than the upstream accepts
Malformed(request) ==
  IF request.op = "create_order"
  THEN \/ request.given.jupyter_token > TokenLimit
       \/ request.given.ssh_password > TokenLimit
       \/ request.given.ssh_key > KeyLimit
  ELSE request.op = "cancel_order" /\ request.given.issue > IssueLimit

\* C35: an order call with a password or token of more than 32 characters,
\* an SSH key of more than 3072 or a cancel reason of more than 2048 ends
\* with a validation error and sends nothing upstream
C35_MalformedRejected ==
  Malformed(order_request) =>
    (~order_request.sent /\ order_request.outcome.kind = "ValidationError")

\* C37: a cycle whose fetch of the active-order list fails ends there and
\* leaves the orders and the alerts as they were
C37_FailedFetchWritesNothing ==
  [][(error'.kind = "UpstreamError") =>
       (orders' = orders /\ alerts' = alerts /\ pc' = "idle")]_vars

\* the fetch failed for an owner with an active order in the ledger
C37_Witness ==
  /\ error.kind = "UpstreamError"
  /\ pc = "idle"
  /\ ActiveIds(orders) # {}

\* the 'order_expired' alerts written for order c
CompletedAlerts(rows, c) ==
  {a \in 1..Len(rows) : rows[a].alert_type = "order_expired" /\ rows[a].order = c}

\* C38: an 'order_expired' alert is written for an order only in the step
\* that takes the order from active to expired, and only if none was
\* written for it before: there is at most one per order, whatever the
\* number of cycles
C38_OneCompletedAlert ==
  [][(alerts' # alerts) => \A c \in OrderIds :
       (CompletedAlerts(alerts', c) # CompletedAlerts(alerts, c)) =>
         /\ CompletedAlerts(alerts, c) = {}
         /\ Cardinality(CompletedAlerts(alerts', c)) = 1
         /\ c \in ActiveIds(orders)
         /\ c \notin ActiveIds(orders')
         /\ \A k \in DOMAIN orders'[c] : orders'[c][k].status = "expired"]_vars

\* an order has its alert from an earlier cycle, and a later cycle is
\* going through the rows it has read as active
C38_Witness ==
  /\ pc = "completed"
  /\ db_orders # <<>>
  /\ \E c \in OrderIds : \E a \in CompletedAlerts(alerts, c) : a <= alerts0

\* C39: every listing the dedup cache holds an entry for has a 'hunt_found'
\* alert in the alerts table: no listing is suppressed without an alert
\* ever written for it
C39_DedupOnlyWithAlert ==
  \A server_id \in DOMAIN found_servers : FoundAlerts(alerts, server_id) >= 1

====
